---- MODULE Spec2Model ----
(***************************************************************************)
(* A model of the two programs of the repository:                          *)
(*   search_marvin.py        relevance selection, concurrent gathering of  *)
(*                           project content, grounded answer generation   *)
(*   final_marvin_update.py  the daily maintenance pass                    *)
(* Text is a sequence of tokens (a token is a run of characters), JSON     *)
(* text is a sequence of lexical tokens, and the external store and the    *)
(* completion API are the environment.                                     *)
(***************************************************************************)
EXTENDS Bags, FiniteSets, Integers, Sequences, TLC

VARIABLES
    pc,             \* position of the control thread in main()
    error,          \* the exception that ended the run, "none" if none
    usage_log,      \* usage_log: prompt_tokens, completion_tokens, calls
    model_calls,    \* history: completion-API calls that returned a response
    api_requests,   \* history: completion-API calls issued (returned or failed)
    store_writes,   \* history: /doc/update requests issued
    failed_call,    \* history: the first call outside the gather phase that failed
    after_fail,     \* history: store writes and model calls issued after failed_call
    all_projects,   \* main(): all_projects
    response,       \* identify_relevant_projects: the model's reply (raw)
    relevant,       \* main(): relevant
    submitted,      \* gather_project_content: projects handed to the executor so far
    queue,          \* executor: submitted work items no worker has taken yet
    running,        \* executor: the _fetch_one_project calls in progress (a bag)
    finished,       \* executor: completed futures not yet yielded by as_completed (a bag)
    results,        \* gather_project_content: results
    content_blocks, \* main(): content_blocks
    answer,         \* main(): answer / no_match_answer
    exit_code,      \* process exit status, -1 while running
    issued,         \* history: the requests a search run has sent, by kind and project
    cli,            \* what the search process is started with: SEARCH_QUERY, argv[1:], stdin
    query,          \* main()'s local query
    reported,       \* what main() hands to write_github_summary and last_result.json
    maint           \* the maintenance pass: its locals and the store's items

vars == <<pc, error, usage_log, model_calls, api_requests, store_writes,
          failed_call, after_fail, all_projects, response, relevant, submitted,
          queue, running, finished, results, content_blocks, answer, exit_code,
          issued, cli, query, reported, maint>>

searchVars == <<all_projects, response, relevant, submitted, queue, running,
                finished, results, content_blocks, answer, issued, cli, query,
                reported>>
queryVars == <<cli, query>>

gatherVars == <<submitted, queue, running, finished, results>>

historyVars == <<model_calls, api_requests, store_writes, failed_call, after_fail>>

(***************************************************************************)
(* Bounds of the model.                                                    *)
(***************************************************************************)
MaxRespLen == 6     \* longest JSON array the model returns to the selector alone
MaxRelevant == 3    \* longest JSON array the model returns in a full search run
MaxPoolLen == 11    \* longest relevance list of the worker-pool specification

(***************************************************************************)
(* Program constants.                                                      *)
(***************************************************************************)
MaxWorkers == 10    \* ThreadPoolExecutor(max_workers=10)

(***************************************************************************)
(* Text.  str.strip() removes leading and trailing whitespace.             *)
(***************************************************************************)
SP == " "

RECURSIVE LStrip(_)
LStrip(s) == IF s # <<>> /\ Head(s) = SP THEN LStrip(Tail(s)) ELSE s

RECURSIVE RStrip(_)
RStrip(s) == IF s # <<>> /\ s[Len(s)] = SP THEN RStrip(SubSeq(s, 1, Len(s) - 1)) ELSE s

Strip(s) == RStrip(LStrip(s))

(***************************************************************************)
(* JSON.  A value is [t, s, items]: t its type, s the text of a scalar,    *)
(* items the elements of an array (the members of an object are parsed     *)
(* and dropped: no code of the repository reads them).  A text is a        *)
(* sequence of lexical tokens [k, v].                                      *)
(***************************************************************************)
JStr(s) == [t |-> "str", s |-> s, items |-> <<>>]
JNum(s) == [t |-> "num", s |-> s, items |-> <<>>]
JNull == [t |-> "null", s |-> "", items |-> <<>>]
JArr(items) == [t |-> "arr", s |-> "", items |-> items]
JObj == [t |-> "obj", s |-> "", items |-> <<>>]

Tok(k, v) == [k |-> k, v |-> v]
LB == Tok("[", "")
RB == Tok("]", "")
LC == Tok("{", "")
RC == Tok("}", "")
COMMA == Tok(",", "")
COLON == Tok(":", "")

ParseFail == [ok |-> FALSE, val |-> JNull, next |-> 0]
ParseOk(v, n) == [ok |-> TRUE, val |-> v, next |-> n]

RECURSIVE ParseValue(_, _)
RECURSIVE ParseElems(_, _, _)
RECURSIVE ParseMembers(_, _)

ParseValue(toks, i) ==
    IF i > Len(toks) THEN ParseFail
    ELSE CASE toks[i].k = "str" -> ParseOk(JStr(toks[i].v), i + 1)
           [] toks[i].k = "num" -> ParseOk(JNum(toks[i].v), i + 1)
           [] toks[i].k = "null" -> ParseOk(JNull, i + 1)
           [] toks[i].k = "[" ->
                IF i + 1 <= Len(toks) /\ toks[i + 1].k = "]"
                THEN ParseOk(JArr(<<>>), i + 2)
                ELSE ParseElems(toks, i + 1, <<>>)
           [] toks[i].k = "{" ->
                IF i + 1 <= Len(toks) /\ toks[i + 1].k = "}"
                THEN ParseOk(JObj, i + 2)
                ELSE ParseMembers(toks, i + 1)
           [] OTHER -> ParseFail

ParseElems(toks, i, acc) ==
    LET r == ParseValue(toks, i) IN
    IF ~r.ok \/ r.next > Len(toks) THEN ParseFail
    ELSE CASE toks[r.next].k = "," -> ParseElems(toks, r.next + 1, Append(acc, r.val))
           [] toks[r.next].k = "]" -> ParseOk(JArr(Append(acc, r.val)), r.next + 1)
           [] OTHER -> ParseFail

ParseMembers(toks, i) ==
    IF i + 1 > Len(toks) \/ toks[i].k # "str" \/ toks[i + 1].k # ":" THEN ParseFail
    ELSE LET r == ParseValue(toks, i + 2) IN
         IF ~r.ok \/ r.next > Len(toks) THEN ParseFail
         ELSE CASE toks[r.next].k = "," -> ParseMembers(toks, r.next + 1)
                [] toks[r.next].k = "}" -> ParseOk(JObj, r.next + 1)
                [] OTHER -> ParseFail

\* json.loads: the whole text must be one value, else JSONDecodeError (ok = FALSE).
JsonLoads(toks) ==
    LET r == ParseValue(toks, 1) IN
    IF r.ok /\ r.next = Len(toks) + 1 THEN r ELSE ParseFail

(***************************************************************************)
(* The locals of final_marvin_update.py main().                            *)
(***************************************************************************)
MaintIdle ==
    [projects |-> <<>>,      \* projects: the categories that are not done
     admin_id |-> "",        \* admin_id, "" for None
     todo |-> <<>>,          \* the tasks the current for loop has still to visit
     parents |-> {},         \* the rest of seen_parent_ids
     proj |-> "",            \* step 3: proj_id of the iteration under way
     tidied |-> <<>>,        \* step 3: tidied
     setters |-> <<>>,       \* setters of the iteration under way
     echo |-> {},            \* history: the fields of the item under way for which
                             \* the model returned the text it was given
     spell_fixed |-> 0, date_assigned |-> 0, notes_tidied |-> 0,
     project_assigned |-> 0,
     writes |-> <<>>]        \* the bodies of the /doc/update requests that succeeded

(***************************************************************************)
(* The store (the environment).  A project of /categories is               *)
(* [_id, title, done, hasNote, note]; hasNote = FALSE is an absent "note"  *)
(* key.  /doc?id= returns the full document, /children?parentId= the       *)
(* child records [db, title, done].                                        *)
(***************************************************************************)
P1 == [_id |-> "p1", title |-> <<"Acme", SP, "Contract">>, done |-> FALSE,
       hasNote |-> TRUE, note |-> <<SP, "old", "note">>]
P2 == [_id |-> "p2", title |-> <<"Groceries">>, done |-> FALSE,
       hasNote |-> FALSE, note |-> <<>>]
P3 == [_id |-> "p3", title |-> <<"Archive">>, done |-> TRUE,
       hasNote |-> TRUE, note |-> <<"archived">>]
PAdmin == [_id |-> "p9", title |-> <<"Admin", SP>>, done |-> FALSE,
           hasNote |-> FALSE, note |-> <<>>]

StoreCategories == {<<P1, P2, P3>>, <<P3, P2>>, <<P3>>}

StoreDoc(pid) ==
    IF pid = "p1"
    THEN [title |-> P1.title, hasNote |-> TRUE,
          note |-> <<"deadline", SP, "friday", SP>>]
    ELSE [title |-> <<pid>>, hasNote |-> FALSE, note |-> <<>>]

Child(db, title, done) == [db |-> db, title |-> title, done |-> done]

StoreChildren(pid) ==
    IF pid = "p1"
    THEN <<Child("Tasks", "Send draft", FALSE), Child("Categories", "Annexes", FALSE),
           Child("Tasks", "Sign", TRUE)>>
    ELSE <<Child("Categories", "Recipes", FALSE)>>

\* dict.get("note", ""): the value of the key, "" when the key is absent
GetNote(d) == IF d.hasNote THEN d.note ELSE <<>>

\* get_all_projects / main() step 1: the projects that are not done
ActiveOnly(cats) == SelectSeq(cats, LAMBDA p : ~p.done)

(***************************************************************************)
(* The completion API (the environment): token usage of one call, the      *)
(* replies to the selector and the replies to the generator.               *)
(***************************************************************************)
Usages == {[p |-> 2, c |-> 1], [p |-> 3, c |-> 2]}

RECURSIVE RenderItems(_)
RECURSIVE Render(_)

Render(v) ==
    CASE v.t = "str" -> <<Tok("str", v.s)>>
      [] v.t = "num" -> <<Tok("num", v.s)>>
      [] v.t = "null" -> <<Tok("null", "")>>
      [] v.t = "obj" -> <<LC, RC>>
      [] v.t = "arr" -> <<LB>> \o RenderItems(v.items) \o <<RB>>

RenderItems(items) ==
    IF items = <<>> THEN <<>>
    ELSE IF Len(items) = 1 THEN Render(items[1])
    ELSE Render(items[1]) \o <<COMMA>> \o RenderItems(Tail(items))

SeqsUpTo(S, n) == UNION {[1..k -> S] : k \in 0..n}

Elems == {JStr("p1"), JStr("p2"), JStr("zz"), JNum("7"), JArr(<<JStr("p1")>>)}
IdElems == {JStr("p1"), JStr("p2"), JStr("zz")}
ShortLen == 3

Reply(toks, kind, elems) == [toks |-> toks, kind |-> kind, elems |-> elems]
NoReply == Reply(<<>>, "none", <<>>)

ArrayReplies(S, n) == {Reply(Render(JArr(a)), "array", a) : a \in SeqsUpTo(S, n)}

NonArrayReplies ==
    {Reply(Render(v), "nonarray", <<>>) : v \in {JObj, JNull, JNum("7"), JStr("p1")}}
    \cup {Reply(<<LC, Tok("str", "ids"), COLON, LB, Tok("str", "p1"), RB, RC>>,
                "nonarray", <<>>)}

BrokenReplies ==
    LET good == {Render(JArr(a)) : a \in SeqsUpTo(Elems, 2)} IN
    {Reply(SubSeq(g, 1, Len(g) - 1), "broken", <<>>) : g \in good}
    \cup {Reply(<<Tok("word", "Sure")>> \o g, "broken", <<>>) : g \in good}
    \cup {Reply(g \o <<RB>>, "broken", <<>>) : g \in good}
    \cup {Reply(<<>>, "broken", <<>>), Reply(<<LB, COMMA, RB>>, "broken", <<>>),
          Reply(<<LB, Tok("str", "p1"), COMMA, RB>>, "broken", <<>>),
          Reply(<<LC, Tok("str", "p1"), RC>>, "broken", <<>>)}

\* the replies a full search run is checked with
RunReplies ==
    ArrayReplies(Elems, IF MaxRelevant < ShortLen THEN MaxRelevant ELSE ShortLen)
    \cup ArrayReplies({JStr("p1"), JStr("p2")}, MaxRelevant)
    \cup NonArrayReplies \cup BrokenReplies

\* the replies the selector alone is checked with
SelectorReplies ==
    ArrayReplies(Elems, ShortLen) \cup ArrayReplies(IdElems, MaxRespLen)
    \cup NonArrayReplies \cup BrokenReplies

GeneratorReplies == {<<SP, "the", "deadline", "is", "friday", SP>>, <<"not", "found">>}

(***************************************************************************)
(* History bookkeeping for calls the control thread makes one at a time.   *)
(***************************************************************************)
\* a model call or a store write is issued
Issued == after_fail' = IF failed_call # "none" THEN after_fail + 1 ELSE after_fail

\* a call outside the gather phase fails
Failed(name) == failed_call' = IF failed_call = "none" THEN name ELSE failed_call

\* an uncaught exception ends the process (exit status 1)
Crash(e) == pc' = "crashed" /\ error' = e /\ exit_code' = 1

\* the requests of a search run: the /categories request, the two model calls,
\* and per project id the /doc and /children requests
NoneIssued ==
    [roster |-> 0, selector |-> 0, generator |-> 0, doc |-> EmptyBag, children |-> EmptyBag]
IssueOnce(kind) == issued' = [issued EXCEPT ![kind] = @ + 1]
IssueFetch(kind, id) == issued' = [issued EXCEPT ![kind] = @ (+) SetToBag({id})]

(***************************************************************************)
(* track_usage                                                             *)
(***************************************************************************)
\* mutant: the call counter is not advanced
MutTrackUsage(log, u) ==
    [prompt_tokens |-> log.prompt_tokens + u.p,
     completion_tokens |-> log.completion_tokens + u.c,
     calls |-> log.calls]

TrackUsage(log, u) ==
    [prompt_tokens |-> log.prompt_tokens + u.p,
     completion_tokens |-> log.completion_tokens + u.c,
     calls |-> log.calls + 1]

(***************************************************************************)
(* identify_relevant_projects: parsing and filtering of the reply          *)
(***************************************************************************)
\* mutant: the isinstance check is missing, a non-list value is used as it is
MutParseIds(raw) ==
    LET r == JsonLoads(raw) IN
    IF r.ok THEN (IF r.val.t = "arr" THEN r.val.items ELSE <<r.val>>) ELSE <<>>

\* try: ids = json.loads(raw); if not isinstance(ids, list): ids = []
\* except json.JSONDecodeError: ids = []
ParseIds(raw) ==
    LET r == JsonLoads(raw) IN
    IF r.ok /\ r.val.t = "arr" THEN r.val.items ELSE <<>>

\* lists and dicts are unhashable: "i in id_to_proj" raises TypeError for them
Hashable(v) == v.t \notin {"arr", "obj"}

\* id_to_proj = {p["_id"]: p for p in projects}: a later entry replaces an earlier one
InRoster(projects, v) == v.t = "str" /\ \E i \in 1..Len(projects) : projects[i]._id = v.s

IdToProj(projects, id) ==
    LET last == CHOOSE i \in 1..Len(projects) :
                    /\ projects[i]._id = id
                    /\ \A j \in (i + 1)..Len(projects) : projects[j]._id # id
    IN projects[last]

RECURSIVE LookupAll(_, _)
LookupAll(projects, ids) ==
    IF ids = <<>> THEN <<>>
    ELSE <<IdToProj(projects, Head(ids).s)>> \o LookupAll(projects, Tail(ids))

\* return [id_to_proj[i] for i in ids if i in id_to_proj]
SelectRelevant(projects, ids) ==
    IF \E k \in 1..Len(ids) : ~Hashable(ids[k])
    THEN [raised |-> TRUE, list |-> <<>>]
    ELSE [raised |-> FALSE,
          list |-> LookupAll(projects, SelectSeq(ids, LAMBDA v : InRoster(projects, v)))]

(***************************************************************************)
(* get_query and the query test of main().  A text is a sequence of        *)
(* tokens; cli.environ is the value of SEARCH_QUERY (the empty text when    *)
(* it is unset), cli.argv the arguments after the script name, cli.stdin   *)
(* the line input() would read, or end of file.                            *)
(***************************************************************************)
RECURSIVE Join(_)
\* " ".join(args)
Join(args) ==
    IF Len(args) = 0 THEN <<>>
    ELSE IF Len(args) = 1 THEN args[1]
    ELSE args[1] \o <<SP>> \o Join(Tail(args))

Stdin(eof, line) == [eof |-> eof, line |-> line]
Cli(environ, argv, stdin) == [environ |-> environ, argv |-> argv, stdin |-> stdin]

\* get_query reaches input(): SEARCH_QUERY is blank and no argument is given
PromptReached(c) == Strip(c.environ) = <<>> /\ Len(c.argv) = 0

\* mutant: arguments that join to a blank text fall through to the prompt
MutQueryFrom(c) ==
    IF Strip(c.environ) # <<>> THEN Strip(c.environ)
    ELSE IF Strip(Join(c.argv)) # <<>> THEN Strip(Join(c.argv))
    ELSE Strip(c.stdin.line)

\* the value get_query returns
QueryFrom(c) ==
    IF Strip(c.environ) # <<>> THEN Strip(c.environ)
    ELSE IF Len(c.argv) > 0 THEN Strip(Join(c.argv))
    ELSE Strip(c.stdin.line)

NoQueryMessage == "Error: no search query provided."

\* query = get_query(); if not query: print the error and sys.exit(1)
GetQuery ==
    /\ pc = "start"
    /\ ~(PromptReached(cli) /\ cli.stdin.eof)
    /\ query' = QueryFrom(cli)
    /\ IF query' = <<>>
       THEN pc' = "exited" /\ error' = NoQueryMessage /\ exit_code' = 1
       ELSE pc' = "phase1_fetch" /\ UNCHANGED <<error, exit_code>>
    /\ UNCHANGED <<usage_log, historyVars, all_projects, response, relevant, gatherVars,
                   content_blocks, answer, issued, cli, reported, maint>>

\* input() at end of file raises EOFError, which nothing catches
GetQueryEOF ==
    /\ pc = "start"
    /\ PromptReached(cli) /\ cli.stdin.eof
    /\ Crash("EOFError")
    /\ UNCHANGED <<usage_log, historyVars, all_projects, response, relevant, gatherVars,
                   content_blocks, answer, issued, queryVars, reported, maint>>

(***************************************************************************)
(* search_marvin.py main(), phase 1                                        *)
(***************************************************************************)
\* all_projects = get_all_projects()
GetAllProjects ==
    /\ pc = "phase1_fetch"
    /\ \E cats \in StoreCategories : all_projects' = ActiveOnly(cats)
    /\ pc' = "phase1_llm"
    /\ IssueOnce("roster")
    /\ UNCHANGED <<error, usage_log, historyVars, response, relevant, gatherVars,
                   content_blocks, answer, exit_code, maint, queryVars, reported>>

\* get_all_projects: raise_for_status raises
GetAllProjectsFails ==
    /\ pc = "phase1_fetch"
    /\ Crash("HTTPError")
    /\ Failed("get_all_projects")
    /\ IssueOnce("roster")
    /\ UNCHANGED <<usage_log, model_calls, api_requests, store_writes, after_fail,
                   all_projects, response, relevant, gatherVars, content_blocks,
                   answer, queryVars, reported, maint>>

\* relevant = identify_relevant_projects(query, all_projects), the model replying
IdentifyRelevantProjects(replies) ==
    /\ pc = "phase1_llm"
    /\ \E reply \in replies, u \in Usages :
         LET out == SelectRelevant(all_projects, ParseIds(reply.toks)) IN
         /\ response' = reply
         /\ usage_log' = TrackUsage(usage_log, u)
         /\ IF out.raised
            THEN Crash("TypeError") /\ UNCHANGED relevant
            ELSE /\ relevant' = out.list
                 /\ pc' = "phase1_done"
                 /\ UNCHANGED <<error, exit_code>>
    /\ model_calls' = model_calls + 1
    /\ api_requests' = api_requests + 1
    /\ Issued
    /\ IssueOnce("selector")
    /\ UNCHANGED <<store_writes, failed_call, all_projects, gatherVars,
                   content_blocks, answer, maint, queryVars, reported>>

\* identify_relevant_projects: openai_client.chat.completions.create raises
IdentifyRelevantProjectsFails ==
    /\ pc = "phase1_llm"
    /\ Crash("APIError")
    /\ api_requests' = api_requests + 1
    /\ Issued
    /\ Failed("identify_relevant_projects")
    /\ IssueOnce("selector")
    /\ UNCHANGED <<usage_log, model_calls, store_writes, all_projects, response,
                   relevant, gatherVars, content_blocks, answer, maint, queryVars, reported>>

NoMatchAnswer == <<"No relevant projects were identified for this query.">>

\* the report of a run: the answer and the titles of the projects searched
NotReported == [written |-> FALSE, answer |-> <<>>, projects |-> <<>>]
Reported(ans, projects) ==
    [written |-> TRUE, answer |-> ans,
     projects |-> [i \in 1..Len(projects) |-> projects[i].title]]

\* mutant: the empty relevance list is not told apart
MutNoRelevant(rel) == FALSE

\* if not relevant
NoRelevant(rel) == rel = <<>>

\* if not relevant: report the fixed answer and sys.exit(0)
NoRelevantExit ==
    /\ pc = "phase1_done"
    /\ NoRelevant(relevant)
    /\ answer' = NoMatchAnswer
    /\ response' = NoReply
    /\ pc' = "done"
    /\ exit_code' = 0
    /\ reported' = Reported(NoMatchAnswer, <<>>)
    /\ UNCHANGED <<error, usage_log, historyVars, all_projects, relevant, gatherVars,
                   content_blocks, maint, queryVars, issued>>

(***************************************************************************)
(* _fetch_one_project: two fetches, each in its own try/except             *)
(***************************************************************************)
\* mutant: a failed document fetch leaves the note empty
MutNoteAfterDoc(proj, ok) ==
    IF ok THEN Strip(GetNote(StoreDoc(proj._id))) ELSE <<>>

\* try: note = get_project_doc(pid).get("note", "").strip()
\* except Exception: note = proj.get("note", "").strip()
NoteAfterDoc(proj, ok) ==
    IF ok THEN Strip(GetNote(StoreDoc(proj._id))) ELSE Strip(GetNote(proj))

\* try: tasks = [c for c in get_project_children(pid) if c.get("db") == "Tasks"]
\* except Exception: tasks = []
TasksAfterChildren(proj, ok) ==
    IF ok THEN SelectSeq(StoreChildren(proj._id), LAMBDA c : c.db = "Tasks") ELSE <<>>

Block(proj, note, tasks) ==
    [id |-> proj._id, title |-> proj.title, note |-> note, tasks |-> tasks]

\* a _fetch_one_project call in progress: its argument, the fetch it is at, its
\* local note; docOk records whether its document fetch returned
Task(proj, stage, note, docOk) ==
    [proj |-> proj, stage |-> stage, note |-> note, docOk |-> docOk]

\* mutant: a failed document fetch is tried again
MutAfterDocFetch(t, ok) ==
    IF ok THEN Task(t.proj, "children", NoteAfterDoc(t.proj, ok), ok) ELSE t

\* the call once its document fetch has returned or failed: either way it goes
\* on to the child fetch, the document is not asked for again
AfterDocFetch(t, ok) == Task(t.proj, "children", NoteAfterDoc(t.proj, ok), ok)

\* mutant: the child fetch is not guarded, its exception leaves the call
MutFetchResult(t, ok) ==
    [raised |-> ~ok,
     block |-> Block(t.proj, t.note,
                     SelectSeq(StoreChildren(t.proj._id), LAMBDA c : c.db = "Tasks")),
     proj |-> t.proj, docOk |-> t.docOk, childOk |-> ok]

\* the outcome of the future of task t: the returned block, or an exception;
\* proj, docOk and childOk record the call and which of its fetches returned
FetchResult(t, ok) ==
    [raised |-> FALSE,
     block |-> Block(t.proj, t.note, TasksAfterChildren(t.proj, ok)),
     proj |-> t.proj, docOk |-> t.docOk, childOk |-> ok]

(***************************************************************************)
(* gather_project_content                                                  *)
(***************************************************************************)
\* mutant: the pool has no upper limit of workers
MutWorkerAvailable == TRUE

\* ThreadPoolExecutor(max_workers=10): a work item starts when a worker is free
WorkerAvailable == BagCardinality(running) < MaxWorkers

\* the "with" block ends in shutdown(wait=True): no work item is left
ExecutorIdle == queue = <<>> /\ running = EmptyBag

\* the list over as_completed(futures) has consumed every future
AllYielded == Len(results) = Len(relevant) /\ finished = EmptyBag

\* order = {p["_id"]: i for i, p in enumerate(projects)}: the last index of the id
Order(projects, id) ==
    CHOOSE i \in 1..Len(projects) :
        /\ projects[i]._id = id
        /\ \A j \in (i + 1)..Len(projects) : projects[j]._id # id

\* sorted(results, key=lambda r: order[r["id"]]): a stable sort on the key
RECURSIVE SortFrom(_, _, _)
SortFrom(res, projects, k) ==
    IF k > Len(projects) THEN <<>>
    ELSE SelectSeq(res, LAMBDA r : Order(projects, r.id) = k)
         \o SortFrom(res, projects, k + 1)

SortedByOrder(res, projects) == SortFrom(res, projects, 1)

\* main() enters gather_project_content(relevant) with a non-empty list
BeginGather ==
    /\ pc = "phase1_done"
    /\ ~NoRelevant(relevant)
    /\ pc' = "submit"
    /\ response' = NoReply
    /\ submitted' = 0
    /\ queue' = <<>>
    /\ running' = EmptyBag
    /\ finished' = EmptyBag
    /\ results' = <<>>
    /\ UNCHANGED <<error, usage_log, historyVars, all_projects, relevant,
                   content_blocks, answer, exit_code, maint, queryVars, reported, issued>>

\* executor.submit(_fetch_one_project, p), for the next p of projects
Submit ==
    /\ pc = "submit"
    /\ submitted < Len(relevant)
    /\ queue' = Append(queue, relevant[submitted + 1])
    /\ submitted' = submitted + 1
    /\ pc' = IF submitted + 1 = Len(relevant) THEN "collect" ELSE "submit"
    /\ UNCHANGED <<error, usage_log, historyVars, all_projects, response, relevant,
                   running, finished, results, content_blocks, answer, exit_code, maint, queryVars, reported, issued>>

\* a worker thread takes the oldest work item and enters _fetch_one_project
StartTask ==
    /\ queue # <<>>
    /\ WorkerAvailable
    /\ running' = running (+) SetToBag({Task(Head(queue), "doc", <<>>, TRUE)})
    /\ queue' = Tail(queue)
    /\ UNCHANGED <<pc, error, usage_log, historyVars, all_projects, response, relevant,
                   submitted, finished, results, content_blocks, answer, exit_code,
                   maint, queryVars, reported, issued>>

\* a worker: the document fetch returns or fails
FetchDoc ==
    \E t \in BagToSet(running), ok \in BOOLEAN :
        /\ t.stage = "doc"
        /\ running' = (running (-) SetToBag({t})) (+) SetToBag({AfterDocFetch(t, ok)})
        /\ IssueFetch("doc", t.proj._id)
        /\ UNCHANGED <<pc, error, usage_log, historyVars, all_projects, response,
                       relevant, submitted, queue, finished, results, content_blocks,
                       answer, exit_code, maint, queryVars, reported>>

\* a worker: the child fetch returns or fails, and _fetch_one_project returns
FetchChildren ==
    \E t \in BagToSet(running), ok \in BOOLEAN :
        /\ t.stage = "children"
        /\ running' = running (-) SetToBag({t})
        /\ finished' = finished (+) SetToBag({FetchResult(t, ok)})
        /\ IssueFetch("children", t.proj._id)
        /\ UNCHANGED <<pc, error, usage_log, historyVars, all_projects, response,
                       relevant, submitted, queue, results, content_blocks, answer,
                       exit_code, maint, queryVars, reported>>

\* results = [f.result() for f in as_completed(futures)]: one more future
Collect ==
    /\ pc = "collect"
    /\ \E f \in BagToSet(finished) :
         /\ finished' = finished (-) SetToBag({f})
         /\ IF f.raised
            THEN pc' = "unwind" /\ UNCHANGED results
            ELSE results' = Append(results, f.block) /\ UNCHANGED pc
    /\ UNCHANGED <<error, usage_log, historyVars, all_projects, response, relevant,
                   submitted, queue, running, content_blocks, answer, exit_code, maint, queryVars, reported, issued>>

\* the "with" block is left and gather_project_content returns the sorted
\* results (or the exception of a future propagates)
GatherReturn ==
    /\ \/ pc = "collect" /\ AllYielded
       \/ pc = "unwind"
    /\ ExecutorIdle
    /\ IF pc = "unwind"
       THEN Crash("FetchError") /\ UNCHANGED content_blocks
       ELSE /\ content_blocks' = SortedByOrder(results, relevant)
            /\ pc' = "phase3"
            /\ UNCHANGED <<error, exit_code>>
    /\ UNCHANGED <<usage_log, historyVars, all_projects, response, relevant,
                   gatherVars, answer, issued, maint, queryVars, reported>>

(***************************************************************************)
(* generate_answer and the end of main()                                   *)
(***************************************************************************)
NoProjectsAnswer == <<"No relevant projects were found for your query.">>

\* mutant: the empty list is not special-cased
MutShortCircuit(blocks) == FALSE

\* if not content_blocks: return the fixed answer
ShortCircuit(blocks) == blocks = <<>>

\* answer = generate_answer(query, content_blocks), the model replying if called
GenerateAnswer ==
    /\ pc = "phase3"
    /\ IF ShortCircuit(content_blocks)
       THEN /\ answer' = NoProjectsAnswer
            /\ UNCHANGED <<usage_log, historyVars, issued>>
       ELSE /\ \E text \in GeneratorReplies, u \in Usages :
                 /\ answer' = Strip(text)
                 /\ usage_log' = TrackUsage(usage_log, u)
            /\ model_calls' = model_calls + 1
            /\ api_requests' = api_requests + 1
            /\ Issued
            /\ IssueOnce("generator")
            /\ UNCHANGED <<store_writes, failed_call>>
    /\ pc' = "report"
    /\ UNCHANGED <<error, all_projects, response, relevant, gatherVars,
                   content_blocks, exit_code, maint, queryVars, reported>>

\* generate_answer: openai_client.chat.completions.create raises
GenerateAnswerFails ==
    /\ pc = "phase3"
    /\ ~ShortCircuit(content_blocks)
    /\ Crash("APIError")
    /\ api_requests' = api_requests + 1
    /\ Issued
    /\ Failed("generate_answer")
    /\ IssueOnce("generator")
    /\ UNCHANGED <<usage_log, model_calls, store_writes, all_projects, response,
                   relevant, gatherVars, content_blocks, answer, maint, queryVars, reported>>

\* the answer and the usage summary are printed and main() returns
Report ==
    /\ pc = "report"
    /\ pc' = "done"
    /\ exit_code' = 0
    /\ reported' = Reported(answer, relevant)
    /\ UNCHANGED <<error, usage_log, historyVars, all_projects, response, relevant,
                   gatherVars, content_blocks, answer, issued, queryVars, maint>>

(***************************************************************************)
(* Specifications of the search program                                    *)
(***************************************************************************)
NoUsage == [prompt_tokens |-> 0, completion_tokens |-> 0, calls |-> 0]

\* a search run started with SEARCH_QUERY set, as the workflow starts it
GivenByEnv == Cli(<<"deadline", SP, "acme">>, <<>>, Stdin(TRUE, <<>>))

InitCommon ==
    /\ error = "none"
    /\ store_writes = 0
    /\ failed_call = "none"
    /\ after_fail = 0
    /\ response = NoReply
    /\ submitted = 0
    /\ queue = <<>>
    /\ running = EmptyBag
    /\ finished = EmptyBag
    /\ results = <<>>
    /\ answer = <<>>
    /\ exit_code = -1
    /\ reported = NotReported
    /\ cli = GivenByEnv
    /\ query = QueryFrom(cli)
    /\ maint = MaintIdle

\* a search run, from the first store call of main()
Init ==
    /\ InitCommon
    /\ pc = "phase1_fetch"
    /\ issued = NoneIssued
    /\ usage_log = NoUsage
    /\ model_calls = 0
    /\ api_requests = 0
    /\ all_projects = <<>>
    /\ relevant = <<>>
    /\ content_blocks = <<>>

GatherStep ==
    \/ BeginGather
    \/ Submit
    \/ StartTask
    \/ FetchDoc
    \/ FetchChildren
    \/ Collect
    \/ GatherReturn

Next ==
    \/ GetAllProjects
    \/ GetAllProjectsFails
    \/ IdentifyRelevantProjects(RunReplies)
    \/ IdentifyRelevantProjectsFails
    \/ NoRelevantExit
    \/ GatherStep
    \/ GenerateAnswer
    \/ GenerateAnswerFails
    \/ Report

Spec == Init /\ [][Next]_vars

(***************************************************************************)
(* The query: main() from its first line through phase 1, started with     *)
(* every combination of environment value, arguments and input line.       *)
(***************************************************************************)
EnvValues == {<<>>, <<SP>>, <<SP, "acme", SP>>}
ArgvValues ==
    {<<>>, << <<>> >>, << <<SP>> >>, << <<"acme">>, <<"contract">> >>, << <<SP>>, <<"acme">> >>}
StdinValues ==
    {Stdin(TRUE, <<>>), Stdin(FALSE, <<>>), Stdin(FALSE, <<SP>>),
     Stdin(FALSE, <<"deadline", SP>>)}

InitQuery ==
    /\ error = "none"
    /\ store_writes = 0
    /\ failed_call = "none"
    /\ after_fail = 0
    /\ response = NoReply
    /\ submitted = 0
    /\ queue = <<>>
    /\ running = EmptyBag
    /\ finished = EmptyBag
    /\ results = <<>>
    /\ answer = <<>>
    /\ exit_code = -1
    /\ issued = NoneIssued
    /\ reported = NotReported
    /\ maint = MaintIdle
    /\ pc = "start"
    /\ usage_log = NoUsage
    /\ model_calls = 0
    /\ api_requests = 0
    /\ all_projects = <<>>
    /\ relevant = <<>>
    /\ content_blocks = <<>>
    /\ cli \in {Cli(e, a, i) : e \in EnvValues, a \in ArgvValues, i \in StdinValues}
    /\ query = <<>>

NextQuery ==
    \/ GetQuery
    \/ GetQueryEOF
    \/ GetAllProjects
    \/ GetAllProjectsFails
    \/ IdentifyRelevantProjects(RunReplies)
    \/ IdentifyRelevantProjectsFails
    \/ NoRelevantExit

SpecQuery == InitQuery /\ [][NextQuery]_vars

(***************************************************************************)
(* The selector alone: identify_relevant_projects applied to every roster  *)
(* and every reply of SelectorReplies.                                     *)
(***************************************************************************)
InitSel ==
    /\ InitCommon
    /\ pc = "phase1_llm"
    /\ issued = [NoneIssued EXCEPT !.roster = 1]
    /\ usage_log = NoUsage
    /\ model_calls = 0
    /\ api_requests = 0
    /\ all_projects \in {ActiveOnly(cats) : cats \in StoreCategories}
    /\ relevant = <<>>
    /\ content_blocks = <<>>

NextSel ==
    \/ IdentifyRelevantProjects(SelectorReplies)
    \/ IdentifyRelevantProjectsFails

SpecSel == InitSel /\ [][NextSel]_vars

(***************************************************************************)
(* The generator alone: generate_answer applied to every list of at most   *)
(* two content blocks, the empty list included.                            *)
(***************************************************************************)
\* the requests behind a list of blocks: one per block, by project id
FetchedFor(blocks) ==
    [id \in {blocks[i].id : i \in 1..Len(blocks)} |->
        Cardinality({i \in 1..Len(blocks) : blocks[i].id = id})]

GenBlocks ==
    {Block(p, NoteAfterDoc(p, d), TasksAfterChildren(p, c)) :
        p \in {P1, P2}, d \in BOOLEAN, c \in BOOLEAN}

InitGen ==
    /\ InitCommon
    /\ pc = "phase3"
    /\ usage_log \in {NoUsage} \cup {TrackUsage(NoUsage, u) : u \in Usages}
    /\ model_calls = usage_log.calls
    /\ api_requests = usage_log.calls
    /\ all_projects = <<P1, P2>>
    /\ relevant = <<>>
    /\ content_blocks \in SeqsUpTo(GenBlocks, 2)
    /\ issued = [roster |-> 1, selector |-> usage_log.calls, generator |-> 0,
                 doc |-> FetchedFor(content_blocks),
                 children |-> FetchedFor(content_blocks)]

NextGen ==
    \/ GenerateAnswer
    \/ GenerateAnswerFails
    \/ Report

SpecGen == InitGen /\ [][NextGen]_vars

(***************************************************************************)
(* The worker pool: main() after a selector reply that lists the project   *)
(* p2 up to MaxPoolLen times, more often than the pool has workers.        *)
(***************************************************************************)
Copies(n, x) == [i \in 1..n |-> x]

InitPool ==
    /\ InitCommon
    /\ pc = "phase1_done"
    /\ issued = [NoneIssued EXCEPT !.roster = 1, !.selector = 1]
    /\ usage_log = TrackUsage(NoUsage, [p |-> 2, c |-> 1])
    /\ model_calls = 1
    /\ api_requests = 1
    /\ all_projects = <<P1, P2>>
    /\ \E n \in 1..MaxPoolLen : relevant = Copies(n, P2)
    /\ content_blocks = <<>>

NextPool ==
    \/ GatherStep
    \/ GenerateAnswer
    \/ GenerateAnswerFails
    \/ Report

SpecPool == InitPool /\ [][NextPool]_vars

(***************************************************************************)
(* final_marvin_update.py: the store's items of the day and the replies    *)
(* of the model (the environment).  An item is                             *)
(* [_id, db, done, title, hasDay, note, parentId]; an absent title or note *)
(* is the empty text, parentId "none" is an absent one.                    *)
(***************************************************************************)
Item(id, db, done, title, hasDay, note, parentId) ==
    [_id |-> id, db |-> db, done |-> done, title |-> title, hasDay |-> hasDay,
     note |-> note, parentId |-> parentId]

TodayItems ==
    <<Item("t1", "Tasks", FALSE, <<"buy", SP, "mlik">>, TRUE,
           <<"call", SP, "bob">>, "p1"),
      Item("t2", "Tasks", FALSE, <<"Pay", SP, "rent", SP>>, FALSE,
           <<"![", "alt", "](", "url", ")">>, "unassigned"),
      Item("t3", "Tasks", TRUE, <<"Shop">>, TRUE, <<>>, "p2"),
      Item("t4", "Tasks", FALSE, <<SP>>, TRUE, <<SP>>, "p2"),
      Item("p1", "Categories", FALSE, P1.title, TRUE, <<>>, "root")>>

InboxItems ==
    <<Item("i1", "Tasks", FALSE, <<"fix", SP, "bike">>, FALSE,
           <<"bring", SP, "pump">>, "unassigned"),
      Item("t2", "Tasks", FALSE, <<"Pay", SP, "rent", SP>>, FALSE,
           <<"![", "alt", "](", "url", ")">>, "unassigned"),
      Item("i3", "Tasks", TRUE, <<"old">>, TRUE, <<>>, "unassigned")>>

MaintCategories == {<<P1, P2, P3, PAdmin>>, <<P1, P2, P3>>}

\* the model's reply to fix_spelling, tidy_note and assign_project
FixReplies(text) == {text, <<"Buy", SP, "milk">>}
TidyReplies(note) == {note, <<"tidy", SP>> \o note}
AssignReplies == {<<"UNSURE">>, <<"p1", SP>>, <<"zz">>}

(***************************************************************************)
(* fix_spelling, tidy_note, assign_project, update_doc                     *)
(***************************************************************************)
\* not text or not text.strip()
Blank(text) == Strip(text) = <<>>

\* str.lower(), token by token
LowerTok(w) ==
    CASE w = "Admin" -> "admin"
      [] w = "Screenshot" -> "screenshot"
      [] OTHER -> w
Lower(text) == [i \in 1..Len(text) |-> LowerTok(text[i])]

\* len(text.split()): the maximal runs of tokens that are not whitespace
WordCount(text) ==
    Cardinality({i \in 1..Len(text) : text[i] # SP /\ (i = 1 \/ text[i - 1] = SP)})

ImageSuffixes == {".png", ".jpg", ".jpeg", ".gif", ".webp"}
ScreenshotMaxWords == 5

\* tidy_note: the note is only an image or a screenshot reference
IsMediaOnly(note) ==
    LET stripped == Strip(note)
        lower == Lower(stripped)
    IN \/ /\ stripped # <<>>
          /\ Head(stripped) = "!["
          /\ \E i \in 1..Len(stripped) : stripped[i] = "]("
          /\ stripped[Len(stripped)] = ")"
       \/ stripped # <<>> /\ stripped[Len(stripped)] \in ImageSuffixes
       \/ /\ \E i \in 1..Len(lower) : lower[i] = "screenshot"
          /\ WordCount(lower) <= ScreenshotMaxWords

\* fix_spelling / tidy_note reach the completion API for this input
FixCalls(text) == ~Blank(text)
TidyCalls(note) == ~Blank(note) /\ ~IsMediaOnly(note)

\* the value fix_spelling / tidy_note return when the model replies `reply`
FixSpelling(text, reply) == IF FixCalls(text) THEN Strip(reply) ELSE text
TidyNote(note, reply) == IF TidyCalls(note) THEN Strip(reply) ELSE note

\* assign_project: the project id for the model's answer
AssignProject(reply, projects, admin_id) ==
    LET ans == Strip(reply) IN
    IF ans = <<"UNSURE">> THEN admin_id
    ELSE IF Len(ans) = 1 /\ \E i \in 1..Len(projects) : projects[i]._id = ans[1]
         THEN ans[1]
         ELSE admin_id

Setter(key, val) == [key |-> key, val |-> val]
NowMs == <<"now_ms">>
Today == <<"TODAY">>

\* update_doc: updatedAt is appended unless the caller sets it
UpdateDocBody(item_id, setters) ==
    [itemId |-> item_id,
     setters |-> IF \E i \in 1..Len(setters) : setters[i].key = "updatedAt"
                 THEN setters
                 ELSE Append(setters, Setter("updatedAt", NowMs))]

TitleSetters(fixed) == <<Setter("title", fixed), Setter("fieldUpdates.title", NowMs)>>
DaySetters == <<Setter("day", Today), Setter("fieldUpdates.day", NowMs),
                Setter("firstScheduled", Today)>>
NoteSetters(tidied) == <<Setter("note", tidied), Setter("fieldUpdates.note", NowMs)>>
ParentSetters(id) == <<Setter("parentId", <<id>>), Setter("fieldUpdates.parentId", NowMs)>>

\* admin_project: the first project whose title is "admin" once stripped and lowered
AdminId(projects) ==
    LET hits == SelectSeq(projects, LAMBDA q : Lower(Strip(q.title)) = <<"admin">>)
    IN IF hits = <<>> THEN "" ELSE Head(hits)._id

(***************************************************************************)
(* Outcomes of one call of the control thread                              *)
(***************************************************************************)
NoCall == UNCHANGED <<usage_log, historyVars>>

ModelReturns(u) ==
    /\ usage_log' = TrackUsage(usage_log, u)
    /\ model_calls' = model_calls + 1
    /\ api_requests' = api_requests + 1
    /\ Issued
    /\ UNCHANGED <<store_writes, failed_call>>

ModelRaises(name) ==
    /\ api_requests' = api_requests + 1
    /\ Issued
    /\ Failed(name)
    /\ UNCHANGED <<usage_log, model_calls, store_writes>>

ReadRaises(name) ==
    /\ Failed(name)
    /\ UNCHANGED <<usage_log, model_calls, api_requests, store_writes, after_fail>>

WriteReturns ==
    /\ store_writes' = store_writes + 1
    /\ Issued
    /\ UNCHANGED <<usage_log, model_calls, api_requests, failed_call>>

WriteRaises(name) ==
    /\ store_writes' = store_writes + 1
    /\ Issued
    /\ Failed(name)
    /\ UNCHANGED <<usage_log, model_calls, api_requests>>

Running == UNCHANGED <<error, exit_code>>

(***************************************************************************)
(* final_marvin_update.py main()                                           *)
(***************************************************************************)
IsOpenTask(i) == i.db = "Tasks" /\ ~i.done

\* step 1: categories = get_all_categories(); projects; admin_id
GetAllCategories ==
    /\ pc = "m_categories"
    /\ \E cats \in MaintCategories :
         LET projects == ActiveOnly(cats) IN
         maint' = [maint EXCEPT !.projects = projects, !.admin_id = AdminId(projects)]
    /\ pc' = "m_today"
    /\ NoCall /\ Running
    /\ UNCHANGED searchVars

\* step 2: today_tasks_incomplete = get_today_tasks_incomplete()
GetTodayTasksIncomplete ==
    /\ pc = "m_today"
    /\ LET tasks == SelectSeq(TodayItems, IsOpenTask) IN
       /\ maint' = [maint EXCEPT !.todo = tasks, !.setters = <<>>]
       /\ pc' = IF tasks = <<>> THEN "m_today_all" ELSE "m_task"
    /\ NoCall /\ Running
    /\ UNCHANGED searchVars

\* a fetch of main() outside the try block of step 3 raises
ReadFails(at, name) ==
    /\ pc = at
    /\ Crash("HTTPError")
    /\ ReadRaises(name)
    /\ UNCHANGED <<searchVars, maint>>

\* step 2, one task: the title fix and the date fix
TaskTitle ==
    /\ pc = "m_task"
    /\ LET task == Head(maint.todo)
           original == task.title
       IN \E reply \in FixReplies(original), u \in Usages :
            LET fixed == FixSpelling(original, reply)
                changed == original # <<>> /\ fixed # original
                s1 == IF changed THEN TitleSetters(fixed) ELSE <<>>
                s2 == IF ~task.hasDay THEN s1 \o DaySetters ELSE s1
            IN /\ maint' = [maint EXCEPT
                     !.setters = s2,
                     !.echo = IF FixCalls(original) /\ reply = original
                              THEN {"title"} ELSE {},
                     !.spell_fixed = @ + (IF changed THEN 1 ELSE 0),
                     !.date_assigned = @ + (IF ~task.hasDay THEN 1 ELSE 0)]
               /\ IF original # <<>> /\ FixCalls(original)
                  THEN ModelReturns(u)
                  ELSE NoCall
    /\ pc' = "m_task_note"
    /\ Running
    /\ UNCHANGED searchVars

\* step 2: the completion API raises in fix_spelling
TaskTitleFails ==
    /\ pc = "m_task"
    /\ Head(maint.todo).title # <<>> /\ FixCalls(Head(maint.todo).title)
    /\ Crash("APIError")
    /\ ModelRaises("fix_spelling")
    /\ UNCHANGED <<searchVars, maint>>

\* steps 2 and 4, one task: the note tidy
ItemNote(at, to) ==
    /\ pc = at
    /\ LET note == Head(maint.todo).note IN
       \E reply \in TidyReplies(note), u \in Usages :
         LET tidied == TidyNote(note, reply)
             changed == ~Blank(note) /\ tidied # note
         IN /\ maint' = [maint EXCEPT
                  !.setters = IF changed THEN @ \o NoteSetters(tidied) ELSE @,
                  !.echo = IF TidyCalls(note) /\ reply = note THEN @ \cup {"note"} ELSE @,
                  !.notes_tidied = @ + (IF changed THEN 1 ELSE 0)]
            /\ IF ~Blank(note) /\ TidyCalls(note) THEN ModelReturns(u) ELSE NoCall
    /\ pc' = to
    /\ Running
    /\ UNCHANGED searchVars

\* steps 2 and 4: the completion API raises in tidy_note
ItemNoteFails(at) ==
    /\ pc = at
    /\ TidyCalls(Head(maint.todo).note)
    /\ Crash("APIError")
    /\ ModelRaises("tidy_note")
    /\ UNCHANGED <<searchVars, maint>>

\* steps 2 and 4, one task: if setters: update_doc(task_id, setters); next task
ItemWrite(at, again, after) ==
    /\ pc = at
    /\ maint' = [maint EXCEPT
           !.writes = IF maint.setters # <<>>
                      THEN Append(@, UpdateDocBody(Head(maint.todo)._id, maint.setters))
                      ELSE @,
           !.setters = <<>>,
           !.echo = {},
           !.todo = Tail(@)]
    /\ IF maint.setters # <<>> THEN WriteReturns ELSE NoCall
    /\ pc' = IF Tail(maint.todo) = <<>> THEN after ELSE again
    /\ Running
    /\ UNCHANGED searchVars

\* steps 2 and 4: update_doc raises
ItemWriteFails(at) ==
    /\ pc = at
    /\ maint.setters # <<>>
    /\ Crash("HTTPError")
    /\ WriteRaises("update_doc")
    /\ UNCHANGED <<searchVars, maint>>

\* step 3: today_tasks_all, seen_parent_ids
GetTodayTasksAll ==
    /\ pc = "m_today_all"
    /\ LET ids == {TodayItems[i].parentId : i \in
                     {j \in 1..Len(TodayItems) :
                        /\ TodayItems[j].db = "Tasks"
                        /\ TodayItems[j].parentId \notin {"unassigned", "root", "none"}}}
       IN /\ maint' = [maint EXCEPT !.parents = ids]
          /\ pc' = IF ids = {} THEN "m_inbox_fetch" ELSE "m_proj"
    /\ NoCall /\ Running
    /\ UNCHANGED searchVars

\* step 3: the iteration for the current project ends, the loop goes on
NextProject(id) ==
    /\ maint' = [maint EXCEPT !.parents = @ \ {id}, !.proj = "", !.tidied = <<>>,
                                !.echo = {}]
    /\ pc' = IF maint.parents \ {id} = {} THEN "m_inbox_fetch" ELSE "m_proj"

\* step 3, one project: proj = get_doc(proj_id); a project without note is skipped
ProjGetDoc ==
    /\ pc = "m_proj"
    /\ \E id \in maint.parents :
         IF Blank(GetNote(StoreDoc(id)))
         THEN NextProject(id)
         ELSE /\ maint' = [maint EXCEPT !.proj = id]
              /\ pc' = "m_proj_note"
    /\ NoCall /\ Running
    /\ UNCHANGED searchVars

\* step 3: get_doc raises; except Exception: the loop goes on
ProjGetDocFails ==
    /\ pc = "m_proj"
    /\ \E id \in maint.parents : NextProject(id)
    /\ ReadRaises("get_doc")
    /\ Running
    /\ UNCHANGED searchVars

\* step 3, one project: tidied = tidy_note(proj_note, proj_title)
ProjNote ==
    /\ pc = "m_proj_note"
    /\ LET note == GetNote(StoreDoc(maint.proj)) IN
       \E reply \in TidyReplies(note), u \in Usages :
         LET tidied == TidyNote(note, reply) IN
         /\ IF tidied # note
            THEN /\ maint' = [maint EXCEPT
                          !.tidied = tidied,
                          !.echo = IF TidyCalls(note) /\ reply = note
                                   THEN {"note"} ELSE {}]
                 /\ pc' = "m_proj_write"
            ELSE NextProject(maint.proj)
         /\ IF TidyCalls(note) THEN ModelReturns(u) ELSE NoCall
    /\ Running
    /\ UNCHANGED searchVars

\* step 3: the completion API raises in tidy_note; except Exception: the loop goes on
ProjNoteFails ==
    /\ pc = "m_proj_note"
    /\ TidyCalls(GetNote(StoreDoc(maint.proj)))
    /\ NextProject(maint.proj)
    /\ ModelRaises("tidy_note")
    /\ Running
    /\ UNCHANGED searchVars

\* step 3, one project: update_doc(proj_id, note setters)
ProjWrite ==
    /\ pc = "m_proj_write"
    /\ maint' = [maint EXCEPT
           !.writes = Append(@, UpdateDocBody(maint.proj, NoteSetters(maint.tidied))),
           !.notes_tidied = @ + 1,
           !.parents = @ \ {maint.proj}, !.proj = "", !.tidied = <<>>, !.echo = {}]
    /\ pc' = IF maint.parents \ {maint.proj} = {} THEN "m_inbox_fetch" ELSE "m_proj"
    /\ WriteReturns
    /\ Running
    /\ UNCHANGED searchVars

\* step 3: update_doc raises; except Exception: the loop goes on
ProjWriteFails ==
    /\ pc = "m_proj_write"
    /\ NextProject(maint.proj)
    /\ WriteRaises("update_doc")
    /\ Running
    /\ UNCHANGED searchVars

\* step 4: inbox_tasks = get_inbox_tasks()
GetInboxTasks ==
    /\ pc = "m_inbox_fetch"
    /\ LET tasks == SelectSeq(InboxItems, IsOpenTask) IN
       /\ maint' = [maint EXCEPT !.todo = tasks, !.setters = <<>>]
       /\ pc' = IF tasks = <<>> THEN "m_summary" ELSE "m_inbox"
    /\ NoCall /\ Running
    /\ UNCHANGED searchVars

\* step 4, one task: the project assignment and the date fix
InboxAssign ==
    /\ pc = "m_inbox"
    /\ LET task == Head(maint.todo) IN
       \E reply \in AssignReplies, u \in Usages :
         LET s1 == IF maint.admin_id # ""
                   THEN ParentSetters(AssignProject(reply, maint.projects, maint.admin_id))
                   ELSE <<>>
             s2 == IF ~task.hasDay THEN s1 \o DaySetters ELSE s1
         IN /\ maint' = [maint EXCEPT
                  !.setters = s2,
                  !.echo = {},
                  !.project_assigned = @ + (IF maint.admin_id # "" THEN 1 ELSE 0),
                  !.date_assigned = @ + (IF ~task.hasDay THEN 1 ELSE 0)]
            /\ IF maint.admin_id # "" THEN ModelReturns(u) ELSE NoCall
    /\ pc' = "m_inbox_note"
    /\ Running
    /\ UNCHANGED searchVars

\* step 4: the completion API raises in assign_project
InboxAssignFails ==
    /\ pc = "m_inbox"
    /\ maint.admin_id # ""
    /\ Crash("APIError")
    /\ ModelRaises("assign_project")
    /\ UNCHANGED <<searchVars, maint>>

\* the summary is printed and main() returns
Summary ==
    /\ pc = "m_summary"
    /\ pc' = "done"
    /\ exit_code' = 0
    /\ NoCall
    /\ UNCHANGED <<error, searchVars, maint>>

InitMaint ==
    /\ InitCommon
    /\ pc = "m_categories"
    /\ issued = NoneIssued
    /\ usage_log = NoUsage
    /\ model_calls = 0
    /\ api_requests = 0
    /\ all_projects = <<>>
    /\ relevant = <<>>
    /\ content_blocks = <<>>

NextMaint ==
    \/ GetAllCategories
    \/ ReadFails("m_categories", "get_all_categories")
    \/ GetTodayTasksIncomplete
    \/ ReadFails("m_today", "get_today_tasks_incomplete")
    \/ TaskTitle
    \/ TaskTitleFails
    \/ ItemNote("m_task_note", "m_task_write")
    \/ ItemNoteFails("m_task_note")
    \/ ItemWrite("m_task_write", "m_task", "m_today_all")
    \/ ItemWriteFails("m_task_write")
    \/ GetTodayTasksAll
    \/ ReadFails("m_today_all", "get_today_tasks_all_for_projects")
    \/ ProjGetDoc
    \/ ProjGetDocFails
    \/ ProjNote
    \/ ProjNoteFails
    \/ ProjWrite
    \/ ProjWriteFails
    \/ GetInboxTasks
    \/ ReadFails("m_inbox_fetch", "get_inbox_tasks")
    \/ InboxAssign
    \/ InboxAssignFails
    \/ ItemNote("m_inbox_note", "m_inbox_write")
    \/ ItemNoteFails("m_inbox_note")
    \/ ItemWrite("m_inbox_write", "m_inbox", "m_summary")
    \/ ItemWriteFails("m_inbox_write")
    \/ Summary

SpecMaint == InitMaint /\ [][NextMaint]_vars

(***************************************************************************)
(* Properties                                                              *)
(***************************************************************************)
Ids(projects) == {projects[i]._id : i \in 1..Len(projects)}
CountId(seq, id, key(_)) == Cardinality({i \in 1..Len(seq) : key(seq[i]) = id})
Gathered == pc \in {"phase3", "report"}

\* C1: when gather_project_content has returned, block i has the id of input
\* project i, for every index i of the relevance list.
ClaimC1 ==
    Gathered =>
        /\ Len(content_blocks) = Len(relevant)
        /\ \A i \in 1..Len(relevant) : content_blocks[i].id = relevant[i]._id

\* C2: whatever fetches fail, no future raises, the gather phase can always
\* take a step until it returns, and it returns exactly one block per entry
\* of the list of selected projects.
TheoremC2 ==
    /\ pc # "unwind" /\ error # "FetchError"
    /\ \A f \in BagToSet(finished) : ~f.raised
    /\ pc \in {"submit", "collect"} => ENABLED GatherStep
    /\ Gathered =>
         /\ Len(content_blocks) = Len(relevant)
         /\ \A id \in Ids(relevant) :
              CountId(content_blocks, id, LAMBDA b : b.id)
                = CountId(relevant, id, LAMBDA q : q._id)

\* C2 witness: the gather phase returned two blocks or more, one of them of a
\* project whose document fetch and child fetch both failed.
WitnessC2 ==
    /\ pc = "phase3"
    /\ Len(content_blocks) >= 2
    /\ \E i \in 1..Len(content_blocks) :
         /\ content_blocks[i].id = "p1"
         /\ content_blocks[i].note = <<"old", "note">>
         /\ content_blocks[i].tasks = <<>>

\* C3: the block of a finished _fetch_one_project call has an empty task list
\* if its child fetch failed and the task-type children of the store if not,
\* and independently the (stripped) note of the fetched document if the
\* document fetch returned and the (stripped) note of the roster entry if not.
TheoremC3 ==
    \A f \in BagToSet(finished) :
        LET kids == StoreChildren(f.proj._id)
            doc == StoreDoc(f.proj._id)
        IN /\ f.block.id = f.proj._id
           /\ f.block.tasks =
                IF f.childOk
                THEN SelectSeq(kids, LAMBDA c : c.db = "Tasks")
                ELSE <<>>
           /\ f.block.note =
                IF f.docOk
                THEN Strip(IF doc.hasNote THEN doc.note ELSE <<>>)
                ELSE Strip(IF f.proj.hasNote THEN f.proj.note ELSE <<>>)

\* C3 witness: a finished call for p1 whose document fetch failed and whose
\* child fetch returned: the roster note with the two tasks of the store.
WitnessC3 ==
    \E f \in BagToSet(finished) :
        /\ f.proj._id = "p1" /\ ~f.docOk /\ f.childOk
        /\ f.block.note = <<"old", "note">>
        /\ Len(f.block.tasks) = 2

\* C4: after a reply that is not valid JSON, or is valid JSON but no array,
\* identify_relevant_projects has returned the empty list without raising,
\* and main() can only take the "no relevant projects" exit.
TheoremC4 ==
    response.kind \in {"broken", "nonarray"} =>
        /\ pc = "phase1_done" /\ error = "none"
        /\ relevant = <<>>
        /\ ENABLED NoRelevantExit /\ ~ENABLED BeginGather

\* C4 witness: a truncated array was the reply, with a non-empty roster.
WitnessC4 ==
    /\ response.kind = "broken" /\ response.toks = <<LB, Tok("str", "p1")>>
    /\ all_projects # <<>>
    /\ pc = "phase1_done"

\* C5: after a reply that is a JSON array, identify_relevant_projects has not
\* raised and has returned the roster projects among the elements, in the
\* order of the reply.
ClaimC5 ==
    response.kind = "array" =>
        /\ pc = "phase1_done" /\ error = "none"
        /\ LET known == SelectSeq(response.elems,
                            LAMBDA v : v.t = "str" /\ v.s \in Ids(all_projects))
           IN /\ Len(relevant) = Len(known)
              /\ \A i \in 1..Len(known) : relevant[i]._id = known[i].s

\* C6: the relevance list has at most 5 entries.
ClaimC6 == Len(relevant) <= 5

\* C7: generate_answer on an empty list of content blocks returns the fixed
\* literal and leaves the usage counters and the number of completion-API
\* requests as they were.
TheoremC7 ==
    [][(pc = "phase3" /\ content_blocks = <<>>) =>
          /\ answer' = <<"No relevant projects were found for your query.">>
          /\ usage_log' = usage_log
          /\ api_requests' = api_requests
          /\ model_calls' = model_calls
          /\ pc' = "report"]_vars

\* C7 witness: generate_answer has returned the literal for an empty list,
\* after one earlier model call.
WitnessC7 ==
    /\ pc = "report" /\ content_blocks = <<>>
    /\ answer = <<"No relevant projects were found for your query.">>
    /\ usage_log.calls = 1 /\ api_requests = 1

\* C8: in a search run the call count is the number of model calls that
\* returned, at most 2, and no step taken while the gather phase is under way
\* (submitting, fetching, collecting) changes a usage counter.
GatherUnderWay ==
    pc \in {"submit", "collect", "unwind"} \/ queue # <<>> \/ running # EmptyBag

TheoremC8 ==
    /\ [](usage_log.calls = model_calls /\ model_calls <= 2)
    /\ [][GatherUnderWay => usage_log' = usage_log]_vars

\* C8 witness: both model calls have returned and were counted.
WitnessC8 == pc = "report" /\ usage_log.calls = 2 /\ results # <<>>

\* C9: at most 10 projects are being fetched at any moment, and once the
\* gather phase is over (the generator may start, has run or has failed) every
\* submitted fetch has completed and its block has been collected; the
\* generator's model call is issued only then.
TheoremC9 ==
    /\ BagCardinality(running) <= 10
    /\ (pc \in {"phase3", "report", "done", "crashed"} \/ api_requests > 1) =>
         /\ submitted = Len(relevant)
         /\ queue = <<>> /\ running = EmptyBag /\ finished = EmptyBag
         /\ Len(results) = Len(relevant)
         /\ Len(content_blocks) = Len(relevant)

\* C9 witness: the pool is saturated, 10 fetches in flight and another queued,
\* while the control thread waits for futures.
WitnessC9 ==
    /\ pc = "collect"
    /\ BagCardinality(running) = 10
    /\ queue # <<>>

\* C10: once a call made outside the concurrent gather phase has failed (a
\* store fetch, a store write or a model call), the run has ended with that
\* error and no store write or model call was issued after it.
ClaimC10 ==
    failed_call # "none" => (pc = "crashed" /\ error # "none" /\ after_fail = 0)

\* the entries of the relevance list that have the given id
RelevantEntries(id) == CountId(relevant, id, LAMBDA p : p._id)

\* C11: nothing is retried in a search run. The project list, the selector and
\* the generator are each requested at most once, a failed one included; for every project id
\* the document requests and the child requests each number at most the
\* entries of the relevance list with that id, the failed requests counted,
\* and exactly that many once the gather has returned.
TheoremC11 ==
    /\ issued.roster <= 1
    /\ issued.selector <= 1
    /\ issued.generator <= 1
    /\ \A id \in Ids(relevant) \cup BagToSet(issued.doc) \cup BagToSet(issued.children) :
          /\ CopiesIn(id, issued.children) <= CopiesIn(id, issued.doc)
          /\ CopiesIn(id, issued.doc) <= RelevantEntries(id)
          /\ Gathered => CopiesIn(id, issued.children) = RelevantEntries(id)

\* a gather has returned in which project p1 was selected twice and a document
\* fetch of it failed: two document requests and two child requests for p1
WitnessC11 ==
    /\ Gathered
    /\ RelevantEntries("p1") = 2
    /\ CopiesIn("p1", issued.doc) = 2
    /\ CopiesIn("p1", issued.children) = 2
    /\ \E i \in 1..Len(content_blocks) :
          content_blocks[i].id = "p1" /\ content_blocks[i].note = <<"old", "note">>

\* the source get_query's priority order settles on, and the text it yields
\* (nothing at end of input)
ChosenSource ==
    IF Strip(cli.environ) # <<>> THEN "environment"
    ELSE IF cli.argv # <<>> THEN "arguments"
    ELSE "prompt"
Yielded ==
    CASE ChosenSource = "environment" -> Strip(cli.environ)
      [] ChosenSource = "arguments" -> Strip(Join(cli.argv))
      [] ChosenSource = "prompt" -> IF cli.stdin.eof THEN <<>> ELSE Strip(cli.stdin.line)

\* C12: once main() is past its query test, the query is the stripped
\* environment value if that is non-blank, otherwise the stripped join of the
\* arguments if any are given, otherwise the stripped input line; the process
\* has exit status 1 with no store or model request sent exactly when that
\* source yields the empty text, and then nothing was requested or counted.
TheoremC12 ==
    /\ pc = "start" => exit_code = -1
    /\ pc # "start" =>
         /\ (ChosenSource = "prompt" /\ cli.stdin.eof) \/ query = Yielded
         /\ (Yielded = <<>>) <=> (exit_code = 1 /\ issued = NoneIssued)
         /\ Yielded = <<>> =>
              /\ pc \in {"exited", "crashed"}
              /\ model_calls = 0 /\ api_requests = 0 /\ usage_log = NoUsage
              /\ all_projects = <<>>
         /\ pc = "exited" => error = NoQueryMessage

\* the run has exited with status 1 on blank arguments, the environment value
\* blank too, although the input line would have given a query
WitnessC12 ==
    /\ pc = "exited" /\ exit_code = 1
    /\ cli.environ = <<SP>> /\ cli.argv = << <<SP>> >>
    /\ Strip(cli.stdin.line) # <<>>

\* the keys a list of setters assigns
Keys(setters) == {setters[i].key : i \in 1..Len(setters)}

\* C13: in every step of the maintenance pass, a field for which the model
\* returned the text it was given is recorded as unchanged (no setter for it,
\* no count of a fix, no project-note write pending) and the write of that
\* item, if one is issued, does not set it; a blank title or note is passed
\* through with no model call and no setter.
ClaimC13 ==
    [][ /\ \A f \in maint'.echo : f \notin Keys(maint'.setters)
        /\ ("title" \in maint'.echo /\ pc = "m_task") =>
               maint'.spell_fixed = maint.spell_fixed
        /\ ("note" \in maint'.echo /\ pc \in {"m_task_note", "m_inbox_note"}) =>
               maint'.notes_tidied = maint.notes_tidied
        /\ ("note" \in maint'.echo /\ pc = "m_proj_note") => pc' # "m_proj_write"
        /\ Len(maint'.writes) > Len(maint.writes) =>
               \A f \in maint.echo : f \notin Keys(maint'.writes[Len(maint'.writes)].setters)
        /\ (pc = "m_task" /\ pc' = "m_task_note" /\ Blank(Head(maint.todo).title)) =>
               /\ model_calls' = model_calls
               /\ "title" \notin Keys(maint'.setters)
        /\ (pc \in {"m_task_note", "m_inbox_note"} /\ pc' # "crashed"
               /\ Blank(Head(maint.todo).note)) =>
               /\ model_calls' = model_calls
               /\ maint'.setters = maint.setters
      ]_vars

\* C14: a search run whose relevance list is empty never dispatches a fetch
\* and never reaches the generator; after phase 1 it can only take the
\* no-match exit, which ends it with exit status 0, one model call counted,
\* the answer "No relevant projects were identified for this query." and an
\* empty project list reported; generate_answer is entered from main() only
\* with a non-empty list of content blocks.
TheoremC14 ==
    /\ relevant = <<>> =>
         /\ pc \in {"phase1_fetch", "phase1_llm", "phase1_done", "done", "crashed"}
         /\ issued.doc = EmptyBag /\ issued.children = EmptyBag
         /\ submitted = 0 /\ queue = <<>> /\ running = EmptyBag /\ finished = EmptyBag
         /\ issued.generator = 0
         /\ content_blocks = <<>>
    /\ (pc = "phase1_done" /\ relevant = <<>>) =>
         /\ ENABLED NoRelevantExit
         /\ ~ENABLED GatherStep /\ ~ENABLED GenerateAnswer
    /\ (pc = "done" /\ relevant = <<>>) =>
         /\ usage_log.calls = 1 /\ model_calls = 1
         /\ answer = <<"No relevant projects were identified for this query.">>
         /\ reported = [written |-> TRUE, answer |-> answer, projects |-> <<>>]
         /\ exit_code = 0
    /\ pc = "phase3" => content_blocks # <<>>

\* the run has ended by the no-match exit, the roster not empty
WitnessC14 ==
    /\ pc = "done" /\ relevant = <<>> /\ all_projects # <<>>
    /\ issued.selector = 1 /\ usage_log.calls = 1
    /\ reported.written /\ reported.projects = <<>>
    /\ exit_code = 0

====
